---- MODULE Spec2Model ----
(***************************************************************************)
(* A model of pystruct/plot_learning.py: plot_learning(), which reads the  *)
(* optimization log of a learner and plots it, and main(), which plots a   *)
(* batch of pickled learners on one figure.                                *)
(*                                                                         *)
(* A learner's log is a record: `has` is the set of attributes the object  *)
(* carries (what hasattr answers), and each attribute's field holds its    *)
(* value (the empty sequence, or 0, when the attribute is absent).         *)
(* The figure is the sequence of plot() calls made so far.  An x value is  *)
(* a rational [num, den] in lowest terms, so that seconds / 60 is          *)
(* a computed value.  A raised exception ends the run: pc = "raised".      *)
(*                                                                         *)
(* numpy and matplotlib are modelled by their documented behaviour:        *)
(* plt.subplots(1, 1) returns one Axes and plt.subplots(1, 2) an ndarray   *)
(* of two; Axes.plot(x, y) raises ValueError when x and y differ in        *)
(* length; a[mask] with a boolean mask raises IndexError unless mask is as *)
(* long as a; a[::0] raises ValueError; np.max of an empty array raises    *)
(* ValueError.  iterations_ is taken to be an array, as np.arange gives,   *)
(* so that it can be indexed by a mask.                                    *)
(***************************************************************************)
EXTENDS Integers, Sequences, FiniteSets, TLC

\* Longest curve, flag sequence or step count of a log.
MaxLen == 2
\* Most pickles on one command line.
MaxBatch == 2

VARIABLES
    caller,         \* "api": plot_learning called directly; "main": the script
    ssvms,          \* the learners, in command-line order
    time,           \* the time argument (args.time)
    axesArg,        \* the axes argument of the current call
    prefix,         \* the prefix argument of the current call
    pc,             \* where control is
    k,              \* index in ssvms of the learner being plotted (0: none yet)
    main_n_plots,   \* main's n_plots (0: not computed yet)
    iterations,     \* plot_learning's local iterations
    stepCount,      \* the number printed as "Iterations: %d"
    inference_run,  \* plot_learning's local inference_run
    n_plots,        \* plot_learning's local n_plots
    axes,           \* plot_learning's local axes, a list
    inds,           \* plot_learning's local inds
    panels,         \* the Axes objects of the figure: labels, title, scale
    figure,         \* the plot() calls made so far, in order
    err             \* the exception raised, if any

vars == <<caller, ssvms, time, axesArg, prefix, pc, k, main_n_plots, iterations,
          stepCount, inference_run, n_plots, axes, inds, panels, figure, err>>

(***************************************************************************)
(* Values                                                                  *)
(***************************************************************************)

Min(a, b) == IF a <= b THEN a ELSE b

RECURSIVE GCD(_, _)
GCD(a, b) == IF b = 0 THEN a ELSE GCD(b, a % b)

\* n / d as a number: the fraction in lowest terms (d > 0, n >= 0).
Frac(n, d) == LET g == GCD(n, d) IN [num |-> n \div g, den |-> d \div g]

\* An integer sequence as numbers.
AsNumbers(s) == [i \in 1..Len(s) |-> Frac(s[i], 1)]

\* np.arange(n)
Arange(n) == [i \in 1..n |-> i - 1]

\* np.max(s), s not empty
MaxOf(s) == CHOOSE m \in {s[i] : i \in 1..Len(s)} : \A i \in 1..Len(s) : s[i] <= m

\* np.any(s)
AnyTrue(s) == \E i \in 1..Len(s) : s[i]

\* ~np.array(s), s a sequence of booleans
Invert(s) == [i \in 1..Len(s) |-> ~s[i]]

\* a[:n]
Take(a, n) == SubSeq(a, 1, Min(n, Len(a)))

\* a[mask], mask a boolean array as long as a
RECURSIVE BoolIndex(_, _)
BoolIndex(a, mask) ==
    IF Len(mask) = 0 THEN <<>>
    ELSE LET rest == BoolIndex(SubSeq(a, 1, Len(mask) - 1), SubSeq(mask, 1, Len(mask) - 1))
         IN  IF mask[Len(mask)] THEN Append(rest, a[Len(mask)]) ELSE rest

\* a[::s], s >= 1
Stride(a, s) == [j \in 1..((Len(a) + s - 1) \div s) |-> a[(j - 1) * s + 1]]

NoError == [type |-> "none", line |-> 0]
Raise(t, l) == [type |-> t, line |-> l]

Absent == [present |-> FALSE, val |-> <<>>]
Present(v) == [present |-> TRUE, val |-> v]

FreshPanel == [xlabel |-> "", title |-> "", yscale |-> "linear", legend |-> FALSE]

(***************************************************************************)
(* The learners a run is given                                             *)
(***************************************************************************)

DualValue(i) == 12 - 2 * i                          \* 10, 8, 6, ...
PrimalValue(i) == 26 - 6 * i + (i * (i - 1)) \div 2 \* 20, 15, 11, ...
LossValue(i) == 10 - i
TimeValue(i) == IF i = 1 THEN 0 ELSE 60 * (i - 2) + 10  \* 0, 10, 70, 130, ...

DualCurve(n) == [i \in 1..n |-> DualValue(i)]
PrimalCurve(n) == [i \in 1..n |-> PrimalValue(i)]
LossCurve(n) == [i \in 1..n |-> LossValue(i)]
Timestamps(n) == [i \in 1..n |-> TimeValue(i)]

\* Step indices of a run that did not start counting at zero.
ResumedIterations == [i \in 1..MaxLen |-> i + 1]

FlagSeqs == UNION {[1..n -> BOOLEAN] : n \in 0..MaxLen}

MkLog(has, it, du, pr, lo, ts, fl, sl) ==
    [has |-> has, iterations_ |-> it, dual_objective_curve_ |-> du,
     primal_objective_curve_ |-> pr, loss_curve_ |-> lo, timestamps_ |-> ts,
     cached_constraint_ |-> fl, show_loss_every |-> sl]

\* One attribute's choices: absent, or present with one of vals.
Choices(attr, vals, none) ==
    {[has |-> {}, v |-> none]} \cup {[has |-> {attr}, v |-> x] : x \in vals}

\* The logs: every attribute absent or present.  A curve has 0..MaxLen entries,
\* timestamps_ its start marker and then one entry per step, for MaxLen steps or
\* one fewer.  show_loss_every is read only when loss_curve_ is there (line 124).
Logs ==
    { MkLog(it.has \cup du.has \cup pr.has \cup lo.has \cup ts.has \cup fl.has \cup sl.has,
            it.v, du.v, pr.v, lo.v, ts.v, fl.v, sl.v) :
        it \in Choices("iterations_", {ResumedIterations}, <<>>),
        du \in Choices("dual_objective_curve_", {DualCurve(n) : n \in 0..MaxLen}, <<>>),
        pr \in Choices("primal_objective_curve_", {PrimalCurve(n) : n \in 0..MaxLen}, <<>>),
        lo \in Choices("loss_curve_", {LossCurve(n) : n \in 1..MaxLen}, <<>>),
        ts \in Choices("timestamps_", {Timestamps(n) : n \in MaxLen..(MaxLen + 1)}, <<>>),
        fl \in Choices("cached_constraint_", FlagSeqs, <<>>),
        sl \in Choices("show_loss_every", 0..2, 0) }

UsedLogs == {l \in Logs : "show_loss_every" \in l.has => "loss_curve_" \in l.has}

\* A learner object: its own log, or a wrapper holding base_ssvm.  own_loss says
\* whether a wrapper itself has a loss_curve_ attribute.
Learner(wrapped, own_loss, log) == [base_ssvm |-> wrapped, own_loss |-> own_loss, log |-> log]

ApiLearners == {Learner(FALSE, FALSE, l) : l \in UsedLogs}

\* hasattr(ssvm, 'loss_curve_') on the object as loaded
HasLossCurve(ssvm) ==
    IF ssvm.base_ssvm THEN ssvm.own_loss ELSE "loss_curve_" \in ssvm.log.has

\* lines 67-68: the learner whose attributes are read
Unwrap(ssvm) == ssvm.log

(***************************************************************************)
(* plot_learning, step by step                                             *)
(***************************************************************************)

\* IterationAxis with the two objective curves tried in the other order.
IterationAxis_PrimalFirst(log) ==
    LET its == IF "iterations_" \in log.has THEN log.iterations_
               ELSE IF "primal_objective_curve_" \in log.has
                    THEN Arange(Len(log.primal_objective_curve_))
                    ELSE Arange(Len(log.dual_objective_curve_))
    IN  IF "iterations_" \notin log.has /\ "primal_objective_curve_" \notin log.has
           /\ "dual_objective_curve_" \notin log.has
        THEN [err |-> Raise("AttributeError", 77), iterations |-> <<>>, stepCount |-> 0]
        ELSE IF Len(its) = 0
             THEN [err |-> Raise("ValueError", 80), iterations |-> its, stepCount |-> 0]
             ELSE [err |-> NoError, iterations |-> its, stepCount |-> MaxOf(its) + 1]

\* lines 70-80: the iteration axis and the printed step count
IterationAxis(log) ==
    LET its == IF "iterations_" \in log.has THEN log.iterations_
               ELSE IF "dual_objective_curve_" \in log.has
                    THEN Arange(Len(log.dual_objective_curve_))
                    ELSE Arange(Len(log.primal_objective_curve_))
        e == IF "iterations_" \in log.has THEN NoError
             ELSE IF "dual_objective_curve_" \in log.has
                  THEN IF Len(log.dual_objective_curve_) = 0
                       THEN Raise("IndexError", 75) ELSE NoError
                  ELSE IF "primal_objective_curve_" \notin log.has
                       THEN Raise("AttributeError", 77)
                       ELSE IF Len(log.primal_objective_curve_) = 0
                            THEN Raise("IndexError", 78) ELSE NoError
    IN  IF e # NoError THEN [err |-> e, iterations |-> <<>>, stepCount |-> 0]
        ELSE IF Len(its) = 0
             THEN [err |-> Raise("ValueError", 80), iterations |-> its, stepCount |-> 0]
             ELSE [err |-> NoError, iterations |-> its, stepCount |-> MaxOf(its) + 1]

\* lines 81-85
InferenceRun(log) ==
    IF "cached_constraint_" \in log.has /\ AnyTrue(log.cached_constraint_)
    THEN Present(Invert(log.cached_constraint_))
    ELSE Absent

\* lines 86-89
LocalPlots(log) == IF "loss_curve_" \in log.has THEN 2 ELSE 1

\* plt.subplots(1, n): one Axes, or an ndarray of n
Subplots(n) == IF n = 1 THEN [kind |-> "Axes", n |-> 1] ELSE [kind |-> "ndarray", n |-> n]

NoAxes == [kind |-> "None", n |-> 0]
AxesListOf(n) == [kind |-> "list", n |-> n]

\* lines 90-93: the list plot_learning indexes; each element is what it holds
AxesList(arg, n) ==
    LET a == IF arg.kind = "None" THEN Subplots(n) ELSE arg
    IN  IF a.kind = "list" THEN [i \in 1..a.n |-> "Axes"] ELSE <<a.kind>>

\* the Axes objects behind the axes argument (created at line 91 when it is None)
PanelsOf(arg, n, old) ==
    IF arg.kind = "None" THEN [i \in 1..n |-> FreshPanel] ELSE old

\* SelectAxis with the leading timestamp kept.
SelectAxis_KeepFirst(log, t, its, ax) ==
    IF t /\ "timestamps_" \notin log.has
    THEN [err |-> Raise("AttributeError", 96), inds |-> <<>>, xlabel |-> ""]
    ELSE LET x == IF t THEN [i \in 1..Len(log.timestamps_) |-> Frac(log.timestamps_[i], 60)]
                  ELSE AsNumbers(its)
             lab == IF t THEN "training time (min)" ELSE "Passes through training data"
         IN  IF ax[1] # "Axes"
             THEN [err |-> Raise("AttributeError", IF t THEN 98 ELSE 100),
                   inds |-> IF t THEN x ELSE <<>>, xlabel |-> ""]
             ELSE [err |-> NoError, inds |-> x, xlabel |-> lab]

\* lines 95-101
SelectAxis(log, t, its, ax) ==
    IF t /\ "timestamps_" \notin log.has
    THEN [err |-> Raise("AttributeError", 96), inds |-> <<>>, xlabel |-> ""]
    ELSE LET x == IF t THEN [i \in 1..(Len(log.timestamps_) - 1) |->
                                 Frac(log.timestamps_[i + 1], 60)]
                  ELSE AsNumbers(its)
             lab == IF t THEN "training time (min)" ELSE "Passes through training data"
         IN  IF ax[1] # "Axes"
             THEN [err |-> Raise("AttributeError", IF t THEN 98 ELSE 100),
                   inds |-> IF t THEN x ELSE <<>>, xlabel |-> ""]
             ELSE [err |-> NoError, inds |-> x, xlabel |-> lab]

Command(log_k, panel, x, y, fmt, label) ==
    [log |-> log_k, panel |-> panel, x |-> x, y |-> y, fmt |-> fmt, label |-> label]

\* PrimalLabel with the two labels exchanged.
PrimalLabel_Swapped(pre, mask) ==
    IF mask.present THEN pre \o "primal objective" ELSE pre \o "cached primal objective"

\* lines 109-110
PrimalLabel(pre, mask) ==
    IF mask.present THEN pre \o "cached primal objective" ELSE pre \o "primal objective"

\* lines 104-106
DualLine(log, x, pre, i) ==
    IF "dual_objective_curve_" \notin log.has
    THEN [err |-> NoError, cmds |-> <<>>]
    ELSE IF Len(x) # Len(log.dual_objective_curve_)
         THEN [err |-> Raise("ValueError", 105), cmds |-> <<>>]
         ELSE [err |-> NoError,
               cmds |-> <<Command(i, 0, x, log.dual_objective_curve_, "--",
                                  pre \o "dual objective")>>]

\* lines 107-110
PrimalLine(log, x, mask, pre, i) ==
    IF "primal_objective_curve_" \notin log.has
    THEN [err |-> NoError, cmds |-> <<>>]
    ELSE IF Len(x) # Len(log.primal_objective_curve_)
         THEN [err |-> Raise("ValueError", 108), cmds |-> <<>>]
         ELSE [err |-> NoError,
               cmds |-> <<Command(i, 0, x, log.primal_objective_curve_, "-",
                                  PrimalLabel(pre, mask))>>]

\* Truncate that leaves the mask as long as the flags.
Truncate_Not(log, mask) == mask

\* line 112
Truncate(log, mask) == Present(Take(mask.val, Len(log.dual_objective_curve_)))

\* lines 111-115
Overlay(log, x, mask, pre, i) ==
    IF ~mask.present
    THEN [err |-> NoError, cmds |-> <<>>, mask |-> mask]
    ELSE IF "dual_objective_curve_" \notin log.has
         THEN [err |-> Raise("AttributeError", 112), cmds |-> <<>>, mask |-> mask]
         ELSE LET m == Truncate(log, mask)
              IN  IF Len(m.val) # Len(x)
                  THEN [err |-> Raise("IndexError", 113), cmds |-> <<>>, mask |-> m]
                  ELSE IF "primal_objective_curve_" \notin log.has
                  THEN [err |-> Raise("AttributeError", 114), cmds |-> <<>>, mask |-> m]
                  ELSE IF Len(m.val) # Len(log.primal_objective_curve_)
                  THEN [err |-> Raise("IndexError", 114), cmds |-> <<>>, mask |-> m]
                  ELSE [err |-> NoError, mask |-> m,
                        cmds |-> <<Command(i, 0, BoolIndex(x, m.val),
                                           BoolIndex(log.primal_objective_curve_, m.val),
                                           "o", pre \o "primal")>>]

\* lines 103-116: the objective panel; what was plotted before an exception stays
ObjectivePanel(log, x, mask, pre, i) ==
    LET d == DualLine(log, x, pre, i)
        p == PrimalLine(log, x, mask, pre, i)
        o == Overlay(log, x, mask, pre, i)
        scale == IF "dual_objective_curve_" \in log.has THEN "log" ELSE "linear"
    IN  IF d.err # NoError
        THEN [err |-> d.err, cmds |-> <<>>, mask |-> mask, yscale |-> "linear", legend |-> FALSE]
        ELSE IF p.err # NoError
        THEN [err |-> p.err, cmds |-> d.cmds, mask |-> mask, yscale |-> scale, legend |-> FALSE]
        ELSE IF o.err # NoError
        THEN [err |-> o.err, cmds |-> d.cmds \o p.cmds, mask |-> o.mask, yscale |-> scale,
              legend |-> FALSE]
        ELSE [err |-> NoError, cmds |-> d.cmds \o p.cmds \o o.cmds, mask |-> o.mask,
              yscale |-> scale, legend |-> TRUE]

\* LossAxis that takes the strided axis without comparing lengths.
LossAxis_Unchecked(log, x) ==
    IF "show_loss_every" \in log.has /\ log.show_loss_every >= 1
    THEN Stride(x, log.show_loss_every)
    ELSE AsNumbers(Arange(Len(log.loss_curve_)))

\* lines 123-126: the x values of the loss curve
LossAxis(log, x) ==
    IF "show_loss_every" \in log.has /\ log.show_loss_every >= 1
       /\ Len(Stride(x, log.show_loss_every)) = Len(log.loss_curve_)
    THEN Stride(x, log.show_loss_every)
    ELSE AsNumbers(Arange(Len(log.loss_curve_)))

\* lines 117-129: the error panel
ErrorPanel(log, x, n, ax, t, i) ==
    IF n # 2
    THEN [err |-> NoError, cmds |-> <<>>, drawn |-> FALSE]
    ELSE IF Len(ax) < 2
         THEN [err |-> Raise("IndexError", IF t THEN 119 ELSE 121), cmds |-> <<>>,
               drawn |-> FALSE]
         ELSE [err |-> NoError, drawn |-> TRUE,
               cmds |-> <<Command(i, 1, LossAxis(log, x), log.loss_curve_, "-", "")>>]

\* lines 40-130: a whole call, and what it has plotted when it ends
PlotLearning(ssvm, t, arg, pre, i) ==
    LET log == Unwrap(ssvm)
        a == IterationAxis(log)
        n == LocalPlots(log)
        ax == AxesList(arg, n)
        s == SelectAxis(log, t, a.iterations, ax)
        o == ObjectivePanel(log, s.inds, InferenceRun(log), pre, i)
        e == ErrorPanel(log, s.inds, n, ax, t, i)
    IN  IF a.err # NoError THEN [err |-> a.err, cmds |-> <<>>]
        ELSE IF s.err # NoError THEN [err |-> s.err, cmds |-> <<>>]
        ELSE IF o.err # NoError THEN [err |-> o.err, cmds |-> o.cmds]
        ELSE [err |-> e.err, cmds |-> o.cmds \o e.cmds]

(***************************************************************************)
(* The steps of a call of plot_learning                                    *)
(***************************************************************************)

Log == Unwrap(ssvms[k])

NoLocals ==
    /\ iterations = <<>>
    /\ stepCount = 0
    /\ inference_run = Absent
    /\ n_plots = 0
    /\ axes = <<>>
    /\ inds = <<>>

\* lines 66-93
Normalize ==
    /\ pc = "normalize"
    /\ LET r == IterationAxis(Log)
           n == LocalPlots(Log)
       IN  /\ iterations' = r.iterations
           /\ stepCount' = r.stepCount
           /\ IF r.err # NoError
              THEN /\ pc' = "raised"
                   /\ err' = r.err
                   /\ UNCHANGED <<inference_run, n_plots, axes, panels>>
              ELSE /\ pc' = "axis"
                   /\ inference_run' = InferenceRun(Log)
                   /\ n_plots' = n
                   /\ axes' = AxesList(axesArg, n)
                   /\ panels' = PanelsOf(axesArg, n, panels)
                   /\ UNCHANGED err
    /\ UNCHANGED <<caller, ssvms, time, axesArg, prefix, k, main_n_plots, inds, figure>>

\* lines 95-101
ChooseAxis ==
    /\ pc = "axis"
    /\ LET r == SelectAxis(Log, time, iterations, axes)
       IN  /\ inds' = r.inds
           /\ IF r.err # NoError
              THEN /\ pc' = "raised"
                   /\ err' = r.err
                   /\ UNCHANGED panels
              ELSE /\ pc' = "objective"
                   /\ panels' = [panels EXCEPT ![1].xlabel = r.xlabel]
                   /\ UNCHANGED err
    /\ UNCHANGED <<caller, ssvms, time, axesArg, prefix, k, main_n_plots, iterations,
                   stepCount, inference_run, n_plots, axes, figure>>

\* lines 103-116
DrawObjective ==
    /\ pc = "objective"
    /\ LET r == ObjectivePanel(Log, inds, inference_run, prefix, k)
       IN  /\ figure' = figure \o r.cmds
           /\ inference_run' = r.mask
           /\ panels' = [panels EXCEPT
                 ![1].title = "Objective",
                 ![1].yscale = IF r.yscale = "log" THEN "log" ELSE @,
                 ![1].legend = @ \/ r.legend]
           /\ IF r.err # NoError
              THEN pc' = "raised" /\ err' = r.err
              ELSE pc' = "error" /\ UNCHANGED err
    /\ UNCHANGED <<caller, ssvms, time, axesArg, prefix, k, main_n_plots, iterations,
                   stepCount, n_plots, axes, inds>>

\* lines 117-129
DrawError ==
    /\ pc = "error"
    /\ LET r == ErrorPanel(Log, inds, n_plots, axes, time, k)
       IN  /\ figure' = figure \o r.cmds
           /\ panels' = IF r.drawn
                        THEN [panels EXCEPT
                                ![2].xlabel = IF time THEN "training time (min)"
                                              ELSE "Passes through training data",
                                ![2].title = "Training Error",
                                ![2].yscale = "log"]
                        ELSE panels
           /\ IF r.err # NoError
              THEN pc' = "raised" /\ err' = r.err
              ELSE pc' = "return" /\ UNCHANGED err
    /\ UNCHANGED <<caller, ssvms, time, axesArg, prefix, k, main_n_plots, iterations,
                   stepCount, inference_run, n_plots, axes, inds>>

\* line 130, and back in main's loop (line 32)
Return ==
    /\ pc = "return"
    /\ pc' = IF caller = "main" THEN "main_loop" ELSE "returned"
    /\ UNCHANGED <<caller, ssvms, time, axesArg, prefix, k, main_n_plots, iterations,
                   stepCount, inference_run, n_plots, axes, inds, panels, figure, err>>

(***************************************************************************)
(* main                                                                    *)
(***************************************************************************)

\* args.pickles
Pickles == <<"a.pickle", "b.pickle", "c.pickle", "d.pickle">>

\* lines 33-35
Prefix(n, file_name) ==
    IF n > 1 THEN SubSeq(file_name, 1, Len(file_name) - 7) \o " " ELSE ""

\* lines 27-30
MainPlots(loaded) ==
    IF \E i \in 1..Len(loaded) : HasLossCurve(loaded[i]) THEN 2 ELSE 1

\* lines 27-31
MainPanels ==
    /\ pc = "main_panels"
    /\ main_n_plots' = MainPlots(ssvms)
    /\ axesArg' = Subplots(main_n_plots')
    /\ panels' = [i \in 1..main_n_plots' |-> FreshPanel]
    /\ pc' = "main_loop"
    /\ UNCHANGED <<caller, ssvms, time, prefix, k, iterations, stepCount, inference_run,
                   n_plots, axes, inds, figure, err>>

\* lines 32-36: the next learner is handed to plot_learning
MainCall ==
    /\ pc = "main_loop"
    /\ k < Len(ssvms)
    /\ k' = k + 1
    /\ prefix' = Prefix(Len(ssvms), Pickles[k + 1])
    /\ iterations' = <<>>
    /\ stepCount' = 0
    /\ inference_run' = Absent
    /\ n_plots' = 0
    /\ axes' = <<>>
    /\ inds' = <<>>
    /\ pc' = "normalize"
    /\ UNCHANGED <<caller, ssvms, time, axesArg, main_n_plots, panels, figure, err>>

\* line 37
MainShow ==
    /\ pc = "main_loop"
    /\ k = Len(ssvms)
    /\ pc' = "shown"
    /\ UNCHANGED <<caller, ssvms, time, axesArg, prefix, k, main_n_plots, iterations,
                   stepCount, inference_run, n_plots, axes, inds, panels, figure, err>>

(***************************************************************************)
(* Specifications                                                          *)
(***************************************************************************)

\* One call plot_learning(ssvm, time, axes, prefix): axes left out, or a list of
\* two Axes.
Init ==
    /\ caller = "api"
    /\ \E l \in ApiLearners : ssvms = <<l>>
    /\ time \in BOOLEAN
    /\ axesArg \in {NoAxes, AxesListOf(2)}
    /\ prefix \in {"", "run "}
    /\ pc = "normalize"
    /\ k = 1
    /\ main_n_plots = 0
    /\ NoLocals
    /\ panels = [i \in 1..axesArg.n |-> FreshPanel]
    /\ figure = <<>>
    /\ err = NoError

Next == Normalize \/ ChooseAxis \/ DrawObjective \/ DrawError \/ Return

Spec == Init /\ [][Next]_vars

\* The logs of the pickles of a batch: full-length curves, timestamps kept.
MainLogs ==
    {l \in UsedLogs :
        /\ "iterations_" \notin l.has
        /\ "cached_constraint_" \notin l.has
        /\ "timestamps_" \in l.has /\ Len(l.timestamps_) = MaxLen + 1
        /\ "dual_objective_curve_" \in l.has => Len(l.dual_objective_curve_) = MaxLen
        /\ "primal_objective_curve_" \in l.has => Len(l.primal_objective_curve_) = MaxLen
        /\ "loss_curve_" \in l.has =>
              /\ Len(l.loss_curve_) = MaxLen
              /\ "show_loss_every" \in l.has /\ l.show_loss_every = 1}

MainLearners ==
    {Learner(FALSE, FALSE, l) : l \in MainLogs}
        \cup {Learner(TRUE, o, l) : o \in BOOLEAN, l \in MainLogs}

Batches == UNION {[1..n -> MainLearners] : n \in 1..MaxBatch}

\* The script, its pickles loaded (lines 21-26).
InitMain ==
    /\ caller = "main"
    /\ ssvms \in Batches
    /\ time \in BOOLEAN
    /\ axesArg = NoAxes
    /\ prefix = ""
    /\ pc = "main_panels"
    /\ k = 0
    /\ main_n_plots = 0
    /\ NoLocals
    /\ panels = <<>>
    /\ figure = <<>>
    /\ err = NoError

NextMain ==
    MainPanels \/ MainCall \/ MainShow
        \/ Normalize \/ ChooseAxis \/ DrawObjective \/ DrawError \/ Return

SpecMain == InitMain /\ [][NextMain]_vars

(***************************************************************************)
(* Properties                                                              *)
(***************************************************************************)

\* Lines 66-93 have run without an exception.
Normalized ==
    \/ pc \in {"axis", "objective", "error", "return", "returned"}
    \/ pc = "raised" /\ err.line > 80

\* inds has been assigned (line 97 or 101).
AxisChosen ==
    \/ pc \in {"objective", "error", "return", "returned"}
    \/ pc = "raised" /\ err.line > 101
    \/ pc = "raised" /\ err.line = 98

\* Line 112 has run.
Truncated ==
    /\ inference_run.present
    /\ \/ pc \in {"error", "return", "returned"}
       \/ pc = "raised" /\ err.line >= 113

HasCachedStep == "cached_constraint_" \in Log.has /\ \E i \in 1..Len(Log.cached_constraint_) : Log.cached_constraint_[i]

\* C10: the iteration axis is iterations_ unchanged when the learner has it;
\* otherwise it is 0..n-1 with n the length of the dual curve when there is one,
\* and of the primal curve only when there is no dual curve; the printed step
\* count is the largest entry of the axis plus one.
C10_IterationAxis ==
    Normalized =>
        /\ "iterations_" \in Log.has => iterations = Log.iterations_
        /\ "iterations_" \notin Log.has =>
              /\ Len(iterations) =
                    IF "dual_objective_curve_" \in Log.has
                    THEN Len(Log.dual_objective_curve_)
                    ELSE Len(Log.primal_objective_curve_)
              /\ \A i \in 1..Len(iterations) : iterations[i] = i - 1
        /\ \A i \in 1..Len(iterations) : iterations[i] + 1 <= stepCount
        /\ \E i \in 1..Len(iterations) : iterations[i] + 1 = stepCount

\* A log without iterations_ whose dual curve is shorter than its primal curve has
\* been given the dual curve's axis.
C10_Witness ==
    /\ pc = "axis"
    /\ "iterations_" \notin Log.has
    /\ "dual_objective_curve_" \in Log.has
    /\ "primal_objective_curve_" \in Log.has
    /\ Len(Log.dual_objective_curve_) < Len(Log.primal_objective_curve_)
    /\ stepCount = Len(Log.dual_objective_curve_)

\* C9: with time requested and timestamps_ present, inds is timestamps_ without
\* its first entry, each entry divided by 60: as many entries as timestamps_ has
\* less one, which is the number of steps of a log that stamps its start and then
\* every step, and inds[i] = timestamps_[i+1] / 60.
C9_WallClockAxis ==
    (time /\ "timestamps_" \in Log.has /\ AxisChosen) =>
        /\ Len(inds) = Len(Log.timestamps_) - 1
        /\ \A i \in 1..Len(inds) :
              /\ inds[i].den > 0
              /\ inds[i].num * 60 = Log.timestamps_[i + 1] * inds[i].den
        /\ ("dual_objective_curve_" \in Log.has
               /\ Len(Log.timestamps_) = Len(Log.dual_objective_curve_) + 1)
              => Len(inds) = Len(Log.dual_objective_curve_)

\* Timestamps 0, 10, 70 s have become 1/6 and 7/6 min, over a two-step dual curve.
C9_Witness ==
    /\ pc = "objective"
    /\ time
    /\ Log.timestamps_ = <<0, 10, 70>>
    /\ inds = <<[num |-> 1, den |-> 6], [num |-> 7, den |-> 6]>>
    /\ Len(Log.dual_objective_curve_) = 2

\* C3: inference_run is set exactly when cached_constraint_ is present and holds a
\* true value; where it is set, its entries are the negated flags, and once line
\* 112 has cut it, it is as long as the shorter of cached_constraint_ and the dual
\* curve.
C3_InferenceMask ==
    Normalized =>
        /\ inference_run.present <=> HasCachedStep
        /\ inference_run.present =>
              /\ Len(inference_run.val) <= Len(Log.cached_constraint_)
              /\ \A i \in 1..Len(inference_run.val) :
                    inference_run.val[i] = ~Log.cached_constraint_[i]
        /\ Truncated =>
              /\ Len(inference_run.val) <= Len(Log.dual_objective_curve_)
              /\ \/ Len(inference_run.val) = Len(Log.dual_objective_curve_)
                 \/ Len(inference_run.val) = Len(Log.cached_constraint_)

\* A mask cut to a dual curve shorter than the flags.
C3_Witness ==
    /\ pc = "error"
    /\ inference_run.present
    /\ Len(Log.cached_constraint_) > Len(Log.dual_objective_curve_)
    /\ Len(inference_run.val) = Len(Log.dual_objective_curve_)

\* The plot() calls of the primal curve: solid lines on the objective panel.
PrimalLines == {j \in 1..Len(figure) : figure[j].panel = 0 /\ figure[j].fmt = "-"}

\* C8: the primal line is labelled prefix + "cached primal objective" when
\* cached_constraint_ is present with a true value, and prefix + "primal objective"
\* when it is not.
C8_PrimalLabel ==
    \A j \in PrimalLines :
        figure[j].label = IF HasCachedStep THEN prefix \o "cached primal objective"
                          ELSE prefix \o "primal objective"

\* A primal line labelled as cached, under a prefix.
C8_Witness ==
    /\ pc = "returned"
    /\ prefix = "run "
    /\ \E j \in PrimalLines : figure[j].label = "run cached primal objective"

\* The lines at which reading an attribute the learner lacks raises.
MissingAttributeLines == {77, 96, 112, 114}

\* C1: with time requested and no timestamps_, the call does not fail for want of
\* them, and inds is the iteration axis.
C1_FallBackToIterations ==
    (time /\ "timestamps_" \notin Log.has /\ Normalized /\ pc # "axis") =>
        /\ ~(pc = "raised" /\ err = Raise("AttributeError", 96))
        /\ inds = AsNumbers(iterations)

\* C2: whatever optional attributes the learner has or lacks, no read of a missing
\* one raises, and a curve is plotted only for an attribute the learner has.
C2_AbsenceTolerated ==
    /\ ~(pc = "raised" /\ err.type = "AttributeError" /\ err.line \in MissingAttributeLines)
    /\ \A j \in 1..Len(figure) :
          /\ figure[j].fmt = "--" => "dual_objective_curve_" \in Log.has
          /\ figure[j].panel = 0 /\ figure[j].fmt \in {"-", "o"} =>
                "primal_objective_curve_" \in Log.has
          /\ figure[j].fmt = "o" => "cached_constraint_" \in Log.has
          /\ figure[j].panel = 1 => "loss_curve_" \in Log.has

\* The steps below the cut mask's length that ran inference, in increasing order.
RECURSIVE InferenceSteps(_)
InferenceSteps(n) ==
    IF n = 0 THEN <<>>
    ELSE IF ~Log.cached_constraint_[n] THEN Append(InferenceSteps(n - 1), n)
         ELSE InferenceSteps(n - 1)

\* Lines 104-115 have been gone through, to their end or to an exception.
ObjectiveTried ==
    \/ pc \in {"error", "return", "returned"}
    \/ pc = "raised" /\ err.line >= 105

\* C4: for a log whose dual curve, primal curve and x-axis are equally long and
\* whose flags hold a true value, of whatever length the flags are, the figure
\* holds the dual line, the primal line and then the overlay labelled
\* prefix + "primal", whose points are (inds[i], primal[i]) at the steps i, below
\* the shorter of the flags and the dual curve, that were not cached.
C4_Overlay ==
    (/\ ObjectiveTried
     /\ HasCachedStep
     /\ "dual_objective_curve_" \in Log.has
     /\ "primal_objective_curve_" \in Log.has
     /\ Len(Log.dual_objective_curve_) = Len(inds)
     /\ Len(Log.primal_objective_curve_) = Len(inds)) =>
        LET steps == InferenceSteps(Min(Len(Log.cached_constraint_),
                                        Len(Log.dual_objective_curve_)))
        IN  /\ Len(figure) >= 3
            /\ figure[1].fmt = "--" /\ figure[1].x = inds
            /\ figure[2].fmt = "-" /\ figure[2].x = inds
            /\ figure[3].fmt = "o" /\ figure[3].panel = 0
            /\ figure[3].label = prefix \o "primal"
            /\ figure[3].x = [i \in 1..Len(steps) |-> inds[steps[i]]]
            /\ figure[3].y = [i \in 1..Len(steps) |-> Log.primal_objective_curve_[steps[i]]]

\* The plot() calls of the loss curve.
LossLines == {j \in 1..Len(figure) : figure[j].panel = 1}

\* Lines 117-129 have run without an exception and found a second panel.
ErrorPanelDrawn ==
    /\ pc \in {"return", "returned"}
    /\ "loss_curve_" \in Log.has
    /\ Len(axes) >= 2

\* The x values of call c are x taken at every s-th entry.
IsStrided(c, x, s) ==
    /\ Len(c.x) = (Len(x) + s - 1) \div s
    /\ \A j \in 1..Len(c.x) : c.x[j] = x[(j - 1) * s + 1]

\* The x values of call c are 0, 1, ..., one per y value.
IsPlainIndex(c) ==
    /\ Len(c.x) = Len(c.y)
    /\ \A j \in 1..Len(c.x) : c.x[j] = [num |-> j - 1, den |-> 1]

C6_PanelCount ==
    main_n_plots # 0 =>
        (main_n_plots = 2 <=>
            \E i \in 1..Len(ssvms) : "loss_curve_" \in Unwrap(ssvms[i]).has)

\* The plot() calls made for the i-th learner of the batch.
RECURSIVE CallsOf(_, _)
CallsOf(fig, i) ==
    IF Len(fig) = 0 THEN <<>>
    ELSE LET rest == CallsOf(SubSeq(fig, 1, Len(fig) - 1), i)
         IN  IF fig[Len(fig)].log = i THEN Append(rest, fig[Len(fig)]) ELSE rest

\* C7: when main has ended, each learner whose plotting fails has nothing in the
\* figure, and every other learner of the batch, before or after a failing one,
\* has exactly what its own call of plot_learning plots.
C7_PerLogIndependent ==
    pc \in {"shown", "raised"} =>
        \A i \in 1..Len(ssvms) :
            LET alone == PlotLearning(ssvms[i], time, Subplots(MainPlots(ssvms)),
                                      Prefix(Len(ssvms), Pickles[i]), i)
            IN  CallsOf(figure, i) = IF alone.err # NoError THEN <<>> ELSE alone.cmds

====
